---- MODULE Spec2Model ----
(***************************************************************************)
(* The audio spectrum pipeline of mycroft-gui: FFTCalc (caller context)    *)
(* and BufferProcessor (worker thread), thirdparty/fftcalc.{h,cpp}.        *)
(*                                                                         *)
(* A sample buffer is abstracted to its identity and its length: the       *)
(* scheduling code never looks at sample values.  A spectrum is abstracted *)
(* to the buffer and the frame offset it was computed from.                *)
(***************************************************************************)
EXTENDS Integers, Sequences, FiniteSets, TLC

\* ------------------------------------------------------------ constants
\* #define SPECSIZE 512
SPECSIZE == 512

\* timer->start(100) in the BufferProcessor constructor
CtorTimerInterval == 100

\* int size = 20 in MediaService's handler of calculatedSpectrum
size == 20

\* ------------------------------------------------------------ bounds
\* calls of FFTCalc::calc made by the caller
MaxCalls == 2
\* longest submitted buffer, in whole windows
MaxChunks == 2
\* invocations of run() (timer ticks) in a behaviour
MaxTicks == 3

\* Buffer lengths submitted: empty, one sample short of a window, exactly
\* one window, and MaxChunks windows followed by a partial frame.
Lens == {0, SPECSIZE - 1, SPECSIZE, MaxChunks * SPECSIZE + SPECSIZE - 1}

\* Durations (ms) submitted: negative (and not a multiple of the chunk
\* counts), zero, and the durations of the specification's scenarios.
Durations == {-301, 0, 300, 1000}

\* Values an int member that the constructor never assigns may hold
\* (numberOfChunks, interval, pass), and values a division by zero may
\* leave behind on a build where it does not trap.
Uninit == {-1, 0, 2}

\* The floats of the logscale table are kept as whole numbers of 1/Unit.
Unit == 10000

\* ------------------------------------------------------------ state
VARIABLES
    \* BufferProcessor members (worker context)
    array,          \* QVector<double> array: [buf, len]
    numberOfChunks, \* int numberOfChunks
    interval,       \* int interval
    pass,           \* int pass
    timerActive,    \* QTimer *timer: isActive()
    timerInterval,  \* QTimer *timer: interval()
    fault,          \* the process was killed by a trap (SIGFPE, SIGSEGV)
    \* event queues of the two contexts
    workerQueue,    \* queued processBuffer invocations, oldest first
    callerQueue,    \* queued signals for FFTCalc's slots, oldest first
    \* FFTCalc members and its subscribers (caller context)
    isBusy,         \* bool isBusy
    delivered,      \* events FFTCalc's subscribers have received
    \* history
    handled,        \* the queued signals FFTCalc's slots have handled, in order
    emitted,        \* signals run() emitted since processBuffer was last entered
    runs,           \* invocations of run() since processBuffer was last entered
    ticks,          \* invocations of run() so far
    calls,          \* calls of FFTCalc::calc so far
    processed,      \* invocations of processBuffer so far
    last,           \* the arguments of the last processBuffer invocation
    divByZero,      \* a division by zero has been executed
    outOfRange,     \* run() has read array outside its bounds
    \* the caller's own vector (MediaService::sample), passed to calc
    sample,         \* QVector<double> sample: [buf, len]
    \* one frame on its way through run(), by the kinds of floating-point
    \* value it holds (ShapeSpec); each is the set of kinds that occur
    stage,          \* how far the frame has come
    frame,          \* the samples of the frame
    magnitudes,     \* std::abs(complexFrame[i]) after fft(complexFrame)
    complexFrame,   \* CArray complexFrame as run() leaves it: the amplitudes
    spectrum,       \* QVector<double> spectrum
    compressed,     \* bool compressed
    \* fft and ifft on their own, over exact complex numbers (FftSpec)
    step,           \* which of the two has been applied
    given,          \* the array before any transform
    cx,             \* CArray x, transformed in place
    recursions,     \* calls of fft made from within the last fft(x)
    \* the constructor's loop over logscale (TableSpec)
    logscale,       \* QVector<double> logscale, as far as it has been filled
    \* MediaService's handler of FFTCalc::calculatedSpectrum (DecimateSpec)
    lambdaAt,       \* where the handler stands
    incoming,       \* the spectrum it was called with
    m_spectrum,     \* QVector<double> m_spectrum: the source index of each
    srcIndex,       \* int i
    dstIndex,       \* int j
    overrun,        \* m_spectrum has been written outside its bounds
    \* the worker's timer against the clock (TimerSpec), in milliseconds
    remaining,      \* the time until the timer's next timeout
    sinceProcessed, \* the time since processBuffer last returned
    sinceFirst,     \* the time since processBuffer first returned
    leftAlone,      \* some schedule has had a whole interval to itself
    \* the worker's event loop, one statement at a time (LoopSpec)
    at,             \* where the worker thread stands
    pending,        \* the arguments of the invocation it is handling
    settled,        \* <<array, numberOfChunks, interval>> as the last
                    \* completed handler of the worker left them
    \* MediaService::processBuffer, the slot of the audio probe (MediaSpec)
    dropped,        \* why processBuffer has returned without calling calc
    \* DelegateLoader and AbstractDelegate: who takes the focus (FocusSpec)
    m_focus,        \* bool m_focus of DelegateLoader
    m_delegate,     \* DelegateLoader has created its AbstractDelegate
    activeFocus,    \* the delegate has the active focus
    placement,      \* the delegate's parentItem, its context and index
    lastFocusIn,    \* the reason of the last focusInEvent of the delegate
    sent,           \* the events triggerGuiEvent has sent, oldest first
    \* run()'s loop over the buckets of the compressed spectrum (BucketSpec)
    bucket,         \* int i of the loop over the buckets
    reads           \* the amplitude bins the last bucket read, each with its weight

vars == <<array, numberOfChunks, interval, pass, timerActive, timerInterval,
          fault, workerQueue, callerQueue, isBusy, delivered, handled,
          emitted, runs, ticks, calls, processed, last, divByZero, outOfRange,
          sample, stage, frame, magnitudes, complexFrame, spectrum,
          compressed, step, given, cx, recursions, logscale, lambdaAt,
          incoming, m_spectrum, srcIndex, dstIndex, overrun, remaining,
          sinceProcessed, sinceFirst, leftAlone, at, pending, settled,
          dropped,
          m_focus, m_delegate, activeFocus, placement, lastFocusIn, sent,
          bucket, reads>>

decimateVars ==
    <<lambdaAt, incoming, m_spectrum, srcIndex, dstIndex, overrun>>

fftVars == <<step, given, cx, recursions>>

clockVars == <<remaining, sinceProcessed, sinceFirst, leftAlone>>

mediaVars == <<dropped>>

focusVars == <<m_focus, m_delegate, activeFocus, placement, lastFocusIn, sent>>

bucketVars == <<bucket, reads>>

loopVars == <<at, pending, settled>>

\* The variables of the specifications that take one function on its own.
asideVars == <<fftVars, logscale, decimateVars, clockVars, loopVars,
                   mediaVars,
                   focusVars,
                   bucketVars>>

shapeVars == <<stage, frame, magnitudes, complexFrame, spectrum, compressed>>

schedulerVars ==
    <<array, numberOfChunks, interval, pass, timerActive, timerInterval,
      fault, workerQueue, callerQueue, isBusy, delivered, handled, emitted,
      runs, ticks, calls, processed, last, divByZero, outOfRange, sample>>

workerVars == <<array, numberOfChunks, interval, pass, timerActive,
                timerInterval, fault>>

\* ------------------------------------------------------------ helpers
Abs(x) == IF x < 0 THEN -x ELSE x

Max(a, b) == IF a >= b THEN a ELSE b

Min(a, b) == IF a <= b THEN a ELSE b

\* C++ int division: the quotient truncated towards zero (b # 0).
CDiv(a, b) ==
    LET q == Abs(a) \div Abs(b)
    IN  IF (a < 0) # (b < 0) THEN -q ELSE q

\* emit calculatedSpectrum(spectrum): the spectrum of the frame of buffer
\* buf that starts at offset; values are the kinds its elements can hold.
CalculatedSpectrum(buf, offset, values) ==
    [type |-> "calculatedSpectrum", buf |-> buf, offset |-> offset,
     values |-> values]

AllDone == [type |-> "allDone", buf |-> 0, offset |-> 0, values |-> {}]

IsSpectrum(e) == e.type = "calculatedSpectrum"

IsAllDone(e) == e.type = "allDone"

Spectra(s) == SelectSeq(s, IsSpectrum)

Completions(s) == SelectSeq(s, IsAllDone)

\* ------------------------------------------------------------ floating point
\* The kinds of IEEE value a sample, an amplitude or a spectrum element can
\* be.  "Frac" is a value strictly between 0 and 1, "Big" a finite value
\* above 1, "Neg" a finite value below 0.  An operation whose result kind
\* depends on the magnitudes yields the set of kinds it can produce.
Floats == {"NaN", "NInf", "Neg", "Zero", "Frac", "One", "Big", "PInf"}

Rank(x) ==
    CASE x = "NInf" -> 0
      [] x = "Neg"  -> 1
      [] x = "Zero" -> 2
      [] x = "Frac" -> 3
      [] x = "One"  -> 4
      [] x = "Big"  -> 5
      [] x = "PInf" -> 6

\* a < b on doubles: false whenever an operand is NaN.
Lt(a, b) == a # "NaN" /\ b # "NaN" /\ Rank(a) < Rank(b)

\* qMax(a, b) as it would be with the test the other way round,
\* (b < a) ? a : b, which keeps a NaN second argument.
QMaxSwapped(a, b) == IF Lt(b, a) THEN a ELSE b

\* qMax(a, b): (a < b) ? b : a
QMax(a, b) == IF Lt(a, b) THEN b ELSE a

\* qMin(a, b): (a < b) ? a : b
QMin(a, b) == IF Lt(a, b) THEN a ELSE b

\* CLAMP without its lower bound
CLAMPUpperOnly(a) == IF Lt("One", a) THEN "One" ELSE a

\* CLAMP(a, 0, 1): (a) < (min) ? (min) : (a) > (max) ? (max) : (a)
CLAMP(a) ==
    IF Lt(a, "Zero") THEN "Zero" ELSE IF Lt("One", a) THEN "One" ELSE a

\* w * x for a weight w in [0, 1] (a window coefficient, a logscale
\* fraction): 0 * inf is NaN, a product of two fractions can underflow.
Weights == {"Zero", "Frac", "One"}

Scaled(w, x) ==
    CASE x = "NaN" -> {"NaN"}
      [] x # "NaN" /\ w = "One" -> {x}
      [] x # "NaN" /\ w = "Zero" ->
            IF x \in {"PInf", "NInf"} THEN {"NaN"} ELSE {"Zero"}
      [] x # "NaN" /\ w = "Frac" ->
            CASE x \in {"PInf", "NInf", "Zero", "Neg"} -> {x}
              [] x = "Frac" -> {"Zero", "Frac"}
              [] x = "One" -> {"Frac"}
              [] x = "Big" -> {"Frac", "One", "Big"}

\* a + b in float.
Add(a, b) ==
    IF a = "NaN" \/ b = "NaN" THEN {"NaN"}
    ELSE IF a = "Zero" THEN {b}
    ELSE IF b = "Zero" THEN {a}
    ELSE IF a = "PInf" THEN (IF b = "NInf" THEN {"NaN"} ELSE {"PInf"})
    ELSE IF a = "NInf" THEN (IF b = "PInf" THEN {"NaN"} ELSE {"NInf"})
    ELSE IF b = "PInf" \/ b = "NInf" THEN {b}
    ELSE IF a = "Neg" /\ b = "Neg" THEN {"Neg", "NInf"}
    ELSE IF a = "Neg" \/ b = "Neg"
         THEN {"Neg", "Zero", "Frac", "One", "Big"}
    ELSE IF a = "Frac" /\ b = "Frac" THEN {"Frac", "One", "Big"}
    ELSE IF a = "Big" \/ b = "Big" THEN {"Big", "PInf"}
    ELSE {"Big"}

\* MediaService::processBuffer, Float format: data[i].left / peakValue.
Normalized(x) ==
    CASE x = "One" -> {"Frac"}
      [] x = "Big" -> {"Frac", "One", "Big"}
      [] x \notin {"One", "Big"} -> {x}

\* The same loop without its test: the quotient is kept as it is.
NaNGuardMissing(x) == x

\* if(sample[i] != sample[i]) sample[i] = 0;  A double differs from itself
\* only when it is NaN.
NaNGuard(x) == IF x = "NaN" THEN "Zero" ELSE x

\* One sample through the Float loop of MediaService::processBuffer.
Sanitized(x) == {NaNGuard(n) : n \in Normalized(x)}

\* The sets of kinds a loop can leave behind when each element x it reads
\* becomes one of F[x].
Outcomes(F) ==
    {S \in SUBSET UNION {F[x] : x \in DOMAIN F} :
        \A x \in DOMAIN F : F[x] \cap S # {}}

\* window[i] * array[i + pass*SPECSIZE]: window[0] is 0, window[SPECSIZE/2]
\* is 1, the other coefficients lie between.
Windowed(fr) == UNION {Scaled(w, x) : w \in Weights, x \in fr}

\* std::abs(complexFrame[i]) after fft(complexFrame).  Every output of the
\* transform is a sum over all the inputs: one NaN input makes every
\* magnitude NaN, an infinite input makes each infinite or NaN, a frame of
\* zeros gives zeros, and finite inputs give any finite magnitude (and
\* overflow to infinity when an input is large).
FftMagnitudes(fr) ==
    LET w == Windowed(fr)
    IN  IF "NaN" \in fr THEN {"NaN"}
        ELSE IF w \cap {"NaN", "PInf", "NInf"} # {} THEN {"NaN", "PInf"}
        ELSE IF w \subseteq {"Zero"} THEN {"Zero"}
        ELSE {"Zero", "Frac", "One", "Big"}
                 \cup (IF fr \cap {"Big", "Neg"} # {} THEN {"PInf"} ELSE {})

\* SpectrumAnalyserMultiplier * magnitude, the multiplier being 1e-2.
TimesMultiplier(m) ==
    CASE m = "Frac" -> {"Zero", "Frac"}
      [] m = "One" -> {"Frac"}
      [] m = "Big" -> {"Frac", "One", "Big"}
      [] m \notin {"Frac", "One", "Big"} -> {m}

\* The amplitude loop of run(): scale, qMax with 0.0, qMin with 1.0.
AmplitudeSet(m) ==
    {QMin("One", QMax("Zero", s)) : s \in TimesMultiplier(m)}

\* sum += term, for one or more terms drawn from T.
RECURSIVE SumsFrom(_, _)
SumsFrom(S, T) ==
    IF UNION {Add(s, t) : s \in S, t \in T} \subseteq S
    THEN S
    ELSE SumsFrom(S \cup UNION {Add(s, t) : s \in S, t \in T}, T)

\* The terms a bucket adds up: amplitudes, the first and last weighted by
\* a fraction of a bin (a - logscale[i], logscale[i+1] - b).
BucketSums(amps) ==
    LET terms == UNION {Scaled(w, a) : w \in Weights, a \in amps}
    IN  SumsFrom(terms, terms)

\* sum *= (float) SPECSIZE/24
TimesGain(s) ==
    CASE s = "Frac" -> {"Frac", "One", "Big"}
      [] s = "One" -> {"Big"}
      [] s = "Big" -> {"Big", "PInf"}
      [] s = "Neg" -> {"Neg", "NInf"}
      [] s \notin {"Frac", "One", "Big", "Neg"} -> {s}

\* 20*log10f(sum): log of 0 is -inf, of a negative number NaN.
Decibels(s) ==
    CASE s = "Zero" -> {"NInf"}
      [] s = "Frac" -> {"Neg"}
      [] s = "One" -> {"Zero"}
      [] s = "Big" -> {"Frac", "One", "Big"}
      [] s = "PInf" -> {"PInf"}
      [] s \in {"NaN", "Neg", "NInf"} -> {"NaN"}

\* val = 1 + val / 40
Rescaled(v) ==
    CASE v = "Neg" -> {"Neg", "Zero", "Frac"}
      [] v = "Zero" -> {"One"}
      [] v \in {"Frac", "One", "Big"} -> {"Big"}
      [] v \in {"NaN", "NInf", "PInf"} -> {v}

\* complexFrame[i].real()*100
TimesHundred(a) ==
    CASE a = "Frac" -> {"Frac", "One", "Big"}
      [] a = "One" -> {"Big"}
      [] a = "Big" -> {"Big", "PInf"}
      [] a = "Neg" -> {"Neg", "NInf"}
      [] a \notin {"Frac", "One", "Big", "Neg"} -> {a}

\* The values spectrum[i] can take given the amplitudes, in the compressed
\* (logarithmic) mode and in the linear one.
SpectrumValues(amps, mode) ==
    IF mode
    THEN LET gained == UNION {TimesGain(s) : s \in BucketSums(amps)}
             db == UNION {Decibels(s) : s \in gained}
         IN  {CLAMP(v) : v \in UNION {Rescaled(d) : d \in db}}
    ELSE {CLAMP(v) : v \in UNION {TimesHundred(a) : a \in amps}}

\* The values spectrum[i] can take for a frame of the given samples.
FrameSpectrum(fr, mode) ==
    SpectrumValues(UNION {AmplitudeSet(m) : m \in FftMagnitudes(fr)}, mode)

\* ------------------------------------------------------------ buffers
\* The samples of a buffer, by the kinds that occur in it: silence, or audio
\* normalised into [-1, 1).
Silence == {"Zero"}

Audio == {"Neg", "Zero", "Frac"}

\* What a frame read by run() can hold: silence, audio or, read beyond the
\* end of array, anything at all.
Contents == {Silence, Audio, Floats}

\* FrameSpectrum over a set D of <<contents, mode>> pairs, as a table.
RECURSIVE Tabulated(_)
Tabulated(D) ==
    IF D = {}
    THEN <<>>
    ELSE LET d == CHOOSE x \in D : TRUE
         IN  (d :> FrameSpectrum(d[1], d[2])) @@ Tabulated(D \ {d})

\* The spectrum values of each content in each mode, worked out once.
SpectrumOf == Tabulated(Contents \X BOOLEAN)

\* What a caller passes to calc: a length and a duration for a buffer of
\* audio, and one window of silence lasting a second.
Submissions ==
    [len : Lens, duration : Durations, kinds : {Audio}]
        \cup {[len |-> SPECSIZE, duration |-> 1000, kinds |-> Silence]}

\* The vector of submission call, held as buffer number buf.
Buffer(buf, call) == [buf |-> buf, len |-> call.len, kinds |-> call.kinds]

\* The queued processBuffer(_array, duration) for submission call.
Invocation(buf, call) ==
    [buf |-> buf, len |-> call.len, duration |-> call.duration,
     kinds |-> call.kinds]

\* ------------------------------------------------------------ Init
\* No array has been handed to fft.
FftIdle ==
    /\ step = "idle"
    /\ given = <<>>
    /\ cx = <<>>
    /\ recursions = 0

\* The loop over logscale is not looked at.
TableIdle == logscale = <<>>

\* MediaService has not been handed a spectrum.
DecimateIdle ==
    /\ lambdaAt = "idle"
    /\ incoming = <<>>
    /\ m_spectrum = <<>>
    /\ srcIndex = 0
    /\ dstIndex = 0
    /\ overrun = FALSE

\* The clock is not looked at.
ClockIdle ==
    /\ remaining = 0
    /\ sinceProcessed = 0
    /\ sinceFirst = 0
    /\ leftAlone = FALSE

\* The worker's handlers are taken as whole steps.
LoopIdle ==
    /\ at = "loop"
    /\ pending = [buf |-> 0, len |-> 0, duration |-> 0, kinds |-> {}]
    /\ settled = <<>>

\* The audio probe is not looked at.
MediaIdle ==
    /\ dropped = {}

\* No delegate is looked at.
FocusIdle ==
    /\ m_focus = FALSE
    /\ m_delegate = FALSE
    /\ activeFocus = FALSE
    /\ placement = [parent |-> FALSE, context |-> FALSE, index |-> -1]
    /\ lastFocusIn = "none"
    /\ sent = <<>>

\* The loop over the buckets is not looked at.
BucketIdle ==
    /\ bucket = 0
    /\ reads = {}

AsideIdle == FftIdle /\ TableIdle /\ DecimateIdle /\ ClockIdle /\ LoopIdle
    /\ MediaIdle
    /\ FocusIdle
    /\ BucketIdle

\* State after FFTCalc::FFTCalc and BufferProcessor::BufferProcessor: array
\* is empty, the timer runs at 100 ms, isBusy is false; numberOfChunks,
\* interval and pass are not assigned.
Constructed ==
    /\ array = [buf |-> 0, len |-> 0, kinds |-> {}]
    /\ numberOfChunks \in Uninit
    /\ interval \in Uninit
    /\ pass \in Uninit
    /\ timerActive = TRUE
    /\ timerInterval = CtorTimerInterval
    /\ fault = FALSE
    /\ workerQueue = <<>>
    /\ callerQueue = <<>>
    /\ isBusy = FALSE
    /\ delivered = <<>>
    /\ handled = <<>>
    /\ emitted = <<>>
    /\ runs = 0
    /\ ticks = 0
    /\ calls = 0
    /\ processed = 0
    /\ last = [buf |-> 0, len |-> 0, duration |-> 0, kinds |-> {}]
    /\ divByZero = FALSE
    /\ outOfRange = FALSE
    /\ sample = [buf |-> 0, len |-> 0, kinds |-> {}]
    /\ stage = "idle"
    /\ frame = {}
    /\ magnitudes = {}
    /\ complexFrame = {}
    /\ spectrum = {}
    /\ compressed = TRUE

\* The constructed state where only the handlers as whole steps are looked at.
Init == Constructed /\ AsideIdle

\* ------------------------------------------------------------ FFTCalc
\* calc as it would be if it dropped a submission made while an earlier one
\* is still queued.
calcRejectsOverlap ==
    /\ ~fault
    /\ calls < MaxCalls
    /\ \E call \in Submissions :
           /\ sample' = Buffer(calls + 1, call)
           /\ workerQueue' =
                  IF workerQueue # <<>>
                  THEN workerQueue
                  ELSE Append(workerQueue,
                           Invocation(calls + 1, call))
    /\ calls' = calls + 1
    /\ UNCHANGED <<shapeVars, asideVars>>
    /\ UNCHANGED <<workerVars, callerQueue, isBusy, delivered, handled,
                   emitted, runs, ticks, processed, last, divByZero,
                   outOfRange>>

\* calc as it would be with a direct invocation: the buffer is taken and
\* pass reset in the caller's context, before calc returns.
calcDirect ==
    /\ ~fault
    /\ calls < MaxCalls
    /\ \E call \in Submissions :
           /\ sample' = Buffer(calls + 1, call)
           /\ workerQueue' = Append(workerQueue,
                                     Invocation(calls + 1, call))
           /\ array' = Buffer(calls + 1, call)
    /\ pass' = 0
    /\ calls' = calls + 1
    /\ UNCHANGED <<shapeVars, asideVars>>
    /\ UNCHANGED <<numberOfChunks, interval, timerActive, timerInterval,
                   fault, callerQueue, isBusy, delivered, handled,
                   emitted, runs, ticks, processed, last, divByZero,
                   outOfRange>>

\* calc as it would be if the worker's array were the caller's vector itself
\* and not a copy of it: the samples the caller writes for the next buffer
\* show through in the array the worker took from the previous call.
calcAliased ==
    /\ ~fault
    /\ calls < MaxCalls
    /\ \E call \in Submissions :
           /\ sample' = Buffer(calls + 1, call)
           /\ workerQueue' = Append(workerQueue,
                                     Invocation(calls + 1, call))
           /\ array' = IF array.buf = sample.buf /\ sample.buf > 0
                       THEN Buffer(calls + 1, call)
                       ELSE array
    /\ calls' = calls + 1
    /\ UNCHANGED <<shapeVars, asideVars>>
    /\ UNCHANGED <<numberOfChunks, interval, pass, timerActive,
                   timerInterval, fault, callerQueue, isBusy, delivered,
                   handled, emitted, runs, ticks, processed, last,
                   divByZero, outOfRange>>

\* The caller fills its vector with the samples of the next audio buffer
\* (MediaService::processBuffer: sample.resize, sample[i] = ...) and calls
\* FFTCalc::calc(sample, duration): QMetaObject::invokeMethod(&processor,
\* "processBuffer", Qt::QueuedConnection, Q_ARG(QVector<double>, _array),
\* Q_ARG(int, duration)).  The queued invocation holds a copy of the vector.
calc ==
    /\ ~fault
    /\ calls < MaxCalls
    /\ \E call \in Submissions :
           /\ sample' = Buffer(calls + 1, call)
           /\ workerQueue' = Append(workerQueue,
                                     Invocation(calls + 1, call))
    /\ calls' = calls + 1
    /\ UNCHANGED <<shapeVars, asideVars>>
    /\ UNCHANGED <<workerVars, callerQueue, isBusy, delivered, handled,
                   emitted, runs, ticks, processed, last, divByZero,
                   outOfRange>>

\* setSpectrum as it would be with the signal connected twice: every
\* spectrum reaches the subscribers twice.
setSpectrumTwice ==
    /\ ~fault
    /\ callerQueue # <<>>
    /\ IsSpectrum(Head(callerQueue))
    /\ delivered' = delivered \o <<Head(callerQueue), Head(callerQueue)>>
    /\ handled' = Append(handled, Head(callerQueue))
    /\ callerQueue' = Tail(callerQueue)
    /\ UNCHANGED <<workerVars, workerQueue, isBusy, emitted, runs, ticks,
                   calls, processed, last, divByZero, outOfRange>>
    /\ UNCHANGED <<sample, shapeVars, asideVars>>

\* setSpectrum as it would be if it dropped a spectrum of any buffer but the
\* one calc was last called with.
setSpectrumDropsStale ==
    /\ ~fault
    /\ callerQueue # <<>>
    /\ IsSpectrum(Head(callerQueue))
    /\ delivered' = IF Head(callerQueue).buf = calls
                    THEN Append(delivered, Head(callerQueue))
                    ELSE delivered
    /\ handled' = Append(handled, Head(callerQueue))
    /\ callerQueue' = Tail(callerQueue)
    /\ UNCHANGED <<workerVars, workerQueue, isBusy, emitted, runs, ticks,
                   calls, processed, last, divByZero, outOfRange>>
    /\ UNCHANGED <<sample, shapeVars, asideVars>>

\* FFTCalc::setSpectrum, run for a queued calculatedSpectrum signal:
\* emit calculatedSpectrum(spectrum) to the subscribers.
setSpectrum ==
    /\ ~fault
    /\ callerQueue # <<>>
    /\ IsSpectrum(Head(callerQueue))
    /\ delivered' = Append(delivered, Head(callerQueue))
    /\ handled' = Append(handled, Head(callerQueue))
    /\ callerQueue' = Tail(callerQueue)
    /\ UNCHANGED <<workerVars, workerQueue, isBusy, emitted, runs, ticks,
                   calls, processed, last, divByZero, outOfRange>>
    /\ UNCHANGED <<sample, shapeVars, asideVars>>

\* freeCalc as it would be if it forwarded the completion to the subscribers.
freeCalcNotifies ==
    /\ ~fault
    /\ callerQueue # <<>>
    /\ IsAllDone(Head(callerQueue))
    /\ isBusy' = FALSE
    /\ delivered' = Append(delivered, [type |-> "done", buf |-> 0, offset |-> 0, values |-> {}])
    /\ handled' = Append(handled, Head(callerQueue))
    /\ callerQueue' = Tail(callerQueue)
    /\ UNCHANGED <<workerVars, workerQueue, emitted, runs, ticks, calls,
                   processed, last, divByZero, outOfRange>>
    /\ UNCHANGED <<sample, shapeVars, asideVars>>

\* FFTCalc::freeCalc, run for a queued allDone signal: isBusy = false.
freeCalc ==
    /\ ~fault
    /\ callerQueue # <<>>
    /\ IsAllDone(Head(callerQueue))
    /\ isBusy' = FALSE
    /\ handled' = Append(handled, Head(callerQueue))
    /\ callerQueue' = Tail(callerQueue)
    /\ UNCHANGED <<workerVars, workerQueue, delivered, emitted, runs, ticks,
                   calls, processed, last, divByZero, outOfRange>>
    /\ UNCHANGED <<sample, shapeVars, asideVars>>

\* ------------------------------------------------------------ BufferProcessor
\* the chunk count rounded up, which counts a trailing partial frame
ChunkCountCeil(len) == (len + SPECSIZE - 1) \div SPECSIZE

\* numberOfChunks = _array.size()/SPECSIZE
ChunkCount(len) == len \div SPECSIZE

\* the interval left as the quotient, without the lower bound
ClampIntervalMissing(q) == q

\* if(interval < 1) interval = 1
ClampInterval(q) == IF q < 1 THEN 1 ELSE q

\* the frame taken one window too far
FrameOffsetOffByOne(p) == (p + 1) * SPECSIZE

\* the first sample of the frame run() extracts: array[i+pass*SPECSIZE], i = 0
FrameOffset(p) == p * SPECSIZE

\* The rest of processBuffer as it would be if a schedule that has emitted
\* allDone were not started over: pass stays where it is.
ScheduleNotRestarted(call, q) ==
    /\ interval' = ClampInterval(q)
    /\ array' = Buffer(call.buf, call)
    /\ pass' = IF Completions(emitted) # <<>> THEN pass ELSE 0
    /\ timerActive' = TRUE
    /\ timerInterval' = ClampInterval(q)
    /\ fault' = FALSE

\* The rest of processBuffer without its pass = 0.
ScheduleKeepsPass(call, q) ==
    /\ interval' = ClampInterval(q)
    /\ array' = Buffer(call.buf, call)
    /\ pass' = pass
    /\ timerActive' = TRUE
    /\ timerInterval' = ClampInterval(q)
    /\ fault' = FALSE

\* The rest of processBuffer once duration/numberOfChunks has yielded q:
\* clamp the interval, take the new buffer, reset pass, restart the timer.
Schedule(call, q) ==
    /\ interval' = ClampInterval(q)
    /\ array' = Buffer(call.buf, call)
    /\ pass' = 0
    /\ timerActive' = TRUE
    /\ timerInterval' = ClampInterval(q)
    /\ fault' = FALSE

\* BufferProcessor::processBuffer, run by the worker's event loop for the
\* oldest queued invocation.  numberOfChunks is recomputed only when the size
\* of the new buffer differs from the size of array.  A division by zero is
\* undefined: the build either traps (the process dies with array already
\* resized) or leaves some value in the quotient.
processBufferEffect ==
    /\ ~fault
    /\ workerQueue # <<>>
    /\ LET call == Head(workerQueue)
           chunks == IF array.len # call.len
                     THEN ChunkCount(call.len)
                     ELSE numberOfChunks
       IN  /\ workerQueue' = Tail(workerQueue)
           /\ numberOfChunks' = chunks
           /\ last' = call
           /\ IF chunks = 0
              THEN /\ divByZero' = TRUE
                   /\ \/ /\ fault' = TRUE
                         /\ array' = [array EXCEPT !.len = call.len]
                         /\ UNCHANGED <<interval, pass, timerActive,
                                        timerInterval>>
                      \/ \E q \in Uninit : Schedule(call, q)
              ELSE /\ divByZero' = divByZero
                   /\ Schedule(call, CDiv(call.duration, chunks))
    /\ processed' = processed + 1
    /\ emitted' = <<>>
    /\ runs' = 0
    /\ UNCHANGED <<callerQueue, isBusy, delivered, handled, ticks, calls,
                   outOfRange>>

\* processBuffer where neither the clock nor the statements within the
\* handler are looked at.
processBuffer ==
    /\ processBufferEffect
    /\ UNCHANGED <<sample, shapeVars, asideVars>>

\* pass left where it is after a frame
NextPassStuck(p) == p

\* pass advanced by two frames
NextPassByTwo(p) == p + 2

\* pass++
NextPass(p) == p + 1

\* run() with the guard on the buffer size ahead of the completion check.
runGuardFirst ==
    /\ ~fault
    /\ timerActive
    /\ ticks < MaxTicks
    /\ ticks' = ticks + 1
    /\ runs' = runs + 1
    /\ IF array.len < SPECSIZE
       THEN UNCHANGED <<emitted, callerQueue, pass>>
       ELSE IF pass = numberOfChunks
       THEN /\ emitted' = Append(emitted, AllDone)
            /\ callerQueue' = Append(callerQueue, AllDone)
            /\ UNCHANGED pass
       ELSE /\ emitted' = Append(emitted,
                   CalculatedSpectrum(array.buf, FrameOffset(pass),
                       SpectrumOf[<<array.kinds, compressed>>]))
            /\ callerQueue' = Append(callerQueue,
                   CalculatedSpectrum(array.buf, FrameOffset(pass),
                       SpectrumOf[<<array.kinds, compressed>>]))
            /\ pass' = pass + 1
    /\ UNCHANGED <<array, numberOfChunks, interval, timerActive,
                   timerInterval, fault, workerQueue, isBusy, delivered,
                   handled, calls, processed, last, divByZero, outOfRange>>
    /\ UNCHANGED <<sample, shapeVars, asideVars>>

\* BufferProcessor::run, the slot of the timer's timeout signal.  The
\* completion check comes first and does not stop the timer; then the guard
\* on the buffer size; then one frame is transformed and emitted.  Reading
\* array outside its bounds is undefined: the build traps or emits a spectrum
\* of whatever the memory holds.
runEffect ==
    /\ ~fault
    /\ timerActive
    /\ ticks < MaxTicks
    /\ ticks' = ticks + 1
    /\ runs' = runs + 1
    /\ IF pass = numberOfChunks
       THEN /\ emitted' = Append(emitted, AllDone)
            /\ callerQueue' = Append(callerQueue, AllDone)
            /\ UNCHANGED <<pass, fault, outOfRange>>
       ELSE IF array.len < SPECSIZE
       THEN UNCHANGED <<emitted, callerQueue, pass, fault, outOfRange>>
       ELSE IF FrameOffset(pass) < 0 \/ FrameOffset(pass) + SPECSIZE > array.len
       THEN /\ outOfRange' = TRUE
            /\ \/ /\ fault' = TRUE
                  /\ UNCHANGED <<emitted, callerQueue, pass>>
               \/ /\ emitted' = Append(emitted,
                         CalculatedSpectrum(array.buf, FrameOffset(pass),
                             SpectrumOf[<<Floats, compressed>>]))
                  /\ callerQueue' = Append(callerQueue,
                         CalculatedSpectrum(array.buf, FrameOffset(pass),
                             SpectrumOf[<<Floats, compressed>>]))
                  /\ pass' = NextPass(pass)
                  /\ fault' = FALSE
       ELSE /\ emitted' = Append(emitted,
                   CalculatedSpectrum(array.buf, FrameOffset(pass),
                       SpectrumOf[<<array.kinds, compressed>>]))
            /\ callerQueue' = Append(callerQueue,
                   CalculatedSpectrum(array.buf, FrameOffset(pass),
                       SpectrumOf[<<array.kinds, compressed>>]))
            /\ pass' = NextPass(pass)
            /\ UNCHANGED <<fault, outOfRange>>
    /\ UNCHANGED <<array, numberOfChunks, interval, timerActive,
                   timerInterval, workerQueue, isBusy, delivered, handled,
                   calls, processed, last, divByZero>>

\* run() as it would be without if(bufferSize < SPECSIZE) return: a frame
\* is extracted whatever array holds.
runWithoutSizeGuard ==
    /\ ~fault
    /\ timerActive
    /\ ticks < MaxTicks
    /\ ticks' = ticks + 1
    /\ runs' = runs + 1
    /\ IF pass = numberOfChunks
       THEN /\ emitted' = Append(emitted, AllDone)
            /\ callerQueue' = Append(callerQueue, AllDone)
            /\ UNCHANGED <<pass, fault, outOfRange>>
       ELSE /\ outOfRange' =
                   (outOfRange \/ FrameOffset(pass) < 0
                       \/ FrameOffset(pass) + SPECSIZE > array.len)
            /\ emitted' = Append(emitted,
                   CalculatedSpectrum(array.buf, FrameOffset(pass),
                       SpectrumOf[<<Floats, compressed>>]))
            /\ callerQueue' = Append(callerQueue,
                   CalculatedSpectrum(array.buf, FrameOffset(pass),
                       SpectrumOf[<<Floats, compressed>>]))
            /\ pass' = pass + 1
            /\ UNCHANGED fault
    /\ UNCHANGED <<array, numberOfChunks, interval, timerActive,
                   timerInterval, workerQueue, isBusy, delivered, handled,
                   calls, processed, last, divByZero>>
    /\ UNCHANGED <<sample, shapeVars, asideVars>>

\* run() where neither the clock nor the statements within the handlers are
\* looked at.
run ==
    /\ runEffect
    /\ UNCHANGED <<sample, shapeVars, asideVars>>

\* ------------------------------------------------------------ specification
Next ==
    \/ calc
    \/ processBuffer
    \/ run
    \/ setSpectrum
    \/ freeCalc

Spec == Init /\ [][Next]_vars

\* The timer of the worker is periodic: as long as the worker's event loop
\* runs, a timeout that stays due is eventually delivered to run().
LiveSpec == Init /\ [][Next]_vars /\ WF_vars(run)

\* ------------------------------------------------------------ claims
\* The spectrum run() emits for frame number i (from 0) of the buffer of the
\* last processed submission.
SpectrumOfFrame(i) ==
    CalculatedSpectrum(last.buf, i * SPECSIZE,
                       SpectrumOf[<<last.kinds, compressed>>])

\* C1: within the schedule of a processed submission of at least one window,
\* run() emits one spectrum per tick, for the frames 0, 1, ... of that buffer
\* in this order, each from offset pass*SPECSIZE, floor(len/SPECSIZE) in
\* total, and nothing but completions after them.
SpectraInPassOrder ==
    (processed > 0 /\ array.len >= SPECSIZE) =>
        /\ Len(Spectra(emitted)) = Min(runs, last.len \div SPECSIZE)
        /\ pass = Len(Spectra(emitted))
        /\ \A i \in 1..Len(emitted) :
               IF i <= last.len \div SPECSIZE
               THEN emitted[i] = SpectrumOfFrame(i - 1)
               ELSE IsAllDone(emitted[i])

\* C1 witness: every whole frame of the longest buffer, which ends in a
\* partial frame, has been emitted and the completion has followed.
SpectraInPassOrderReached ==
    /\ processed > 0
    /\ last.len = MaxChunks * SPECSIZE + SPECSIZE - 1
    /\ MaxChunks >= 2
    /\ Len(Spectra(emitted)) = MaxChunks
    /\ Len(emitted) = MaxChunks + 1

\* C2: a schedule that finishes emits exactly one allDone: one once a tick
\* has found pass = numberOfChunks, and no second one on a later tick.
ExactlyOneCompletion ==
    (processed > 0 /\ array.len >= SPECSIZE) =>
        Len(Completions(emitted)) = IF runs > numberOfChunks THEN 1 ELSE 0

\* C3: after the tick that finds pass = numberOfChunks the timer is inactive.
TimerStopsWhenDone ==
    (processed > 0 /\ array.len >= SPECSIZE /\ Completions(emitted) # <<>>)
        => ~timerActive

\* C4 as claimed: when FFTCalc has handled the allDone that follows the last
\* spectrum of a schedule, its subscribers have received a done notification
\* after that spectrum.
SubscriberReceivesDone ==
    \A i \in 2..Len(handled) :
        (IsSpectrum(handled[i - 1]) /\ IsAllDone(handled[i])) =>
            \E j \in 1..Len(delivered) :
                /\ delivered[j].type = "done"
                /\ j > Len(Spectra(SubSeq(handled, 1, i - 1)))

\* C4 as amended: the subscribers' stream is exactly the spectra FFTCalc has
\* handled, in order, and holds no done notification; the signals run() has
\* emitted reach FFTCalc in emission order, so the allDone of a schedule is
\* handled by freeCalc after the schedule's last spectrum was forwarded; and
\* freeCalc leaves isBusy false.
SubscriberReceivesOnlySpectra ==
    /\ delivered = Spectra(handled)
    /\ LET all == handled \o callerQueue
       IN  /\ Len(emitted) <= Len(all)
           /\ SubSeq(all, Len(all) - Len(emitted) + 1, Len(all)) = emitted
    /\ (handled # <<>> /\ IsAllDone(handled[Len(handled)])) => ~isBusy

\* C4 witness: freeCalc has handled the allDone that ended a schedule of the
\* longest buffer, after all its spectra were forwarded.
SubscriberReceivesOnlySpectraReached ==
    /\ processed > 0
    /\ array.len >= SPECSIZE
    /\ Completions(emitted) # <<>>
    /\ callerQueue = <<>>
    /\ IsAllDone(handled[Len(handled)])
    /\ delivered = Spectra(emitted)
    /\ delivered # <<>>

\* C5: after every processed submission numberOfChunks is
\* floor(len(buffer)/SPECSIZE), so numberOfChunks*SPECSIZE <= len(buffer).
ChunkCountIsFloor ==
    processed > 0 =>
        /\ numberOfChunks = last.len \div SPECSIZE
        /\ numberOfChunks * SPECSIZE <= array.len

\* C6: after a processed submission with numberOfChunks >= 1, interval is
\* max(1, duration div numberOfChunks), it is at least 1, and the timer runs
\* with exactly this interval.
IntervalIsClampedQuotient ==
    (processed > 0 /\ numberOfChunks >= 1) =>
        /\ interval = Max(1, last.duration \div numberOfChunks)
        /\ interval >= 1
        /\ timerActive
        /\ timerInterval = interval
        /\ ~fault

\* C6 witness: a negative duration over two chunks or more, clamped to 1.
IntervalIsClampedQuotientReached ==
    /\ processed > 0
    /\ numberOfChunks >= 2
    /\ array.len >= 2 * SPECSIZE
    /\ last.duration < 0
    /\ interval = 1
    /\ timerInterval = 1

\* C7: processBuffer never divides by zero.
NoDivisionByZero == ~divByZero

\* C8: after the submission of a buffer shorter than one window has been
\* processed, zero chunks are scheduled, no spectrum is emitted for it and
\* the worker is in no fault state.
ShortBufferIsNoError ==
    (processed > 0 /\ last.len < SPECSIZE) =>
        /\ ~fault
        /\ numberOfChunks = 0
        /\ Spectra(emitted) = <<>>

\* C9 as claimed: while array is shorter than one window, the ticks emit
\* nothing, neither a spectrum nor an allDone.
ShortBufferTickEmitsNothing ==
    array.len < SPECSIZE => emitted = <<>>

\* C9 as amended: while array is shorter than one window, no tick emits a
\* spectrum, and every tick emits an allDone exactly when
\* pass = numberOfChunks (the completion check precedes the size guard).
ShortBufferTickEmitsNoSpectrum ==
    array.len < SPECSIZE =>
        /\ Spectra(emitted) = <<>>
        /\ Len(emitted) = IF pass = numberOfChunks THEN runs ELSE 0

\* C9 witness: a tick with an empty array has emitted an allDone.
ShortBufferTickEmitsNoSpectrumReached ==
    /\ array.len < SPECSIZE
    /\ runs > 0
    /\ pass = numberOfChunks
    /\ Len(Completions(emitted)) = runs

\* C10: a processed submission replaces the schedule: array,
\* numberOfChunks and interval are those of the new buffer, pass counts from
\* 0, and every spectrum emitted since is a frame of the new buffer,
\* starting at frame 0.
SubmissionReplacesSchedule ==
    processed > 0 =>
        /\ array = Buffer(last.buf, last)
        /\ numberOfChunks = last.len \div SPECSIZE
        /\ (numberOfChunks >= 1 =>
               interval = Max(1, last.duration \div numberOfChunks))
        /\ pass = Len(Spectra(emitted))
        /\ \A i \in 1..Len(Spectra(emitted)) :
               Spectra(emitted)[i] = SpectrumOfFrame(i - 1)

\* C11: isBusy is true from the call of calc() until freeCalc has handled the
\* allDone of that schedule: in particular while the submission is still
\* queued for the worker.
BusyFromSubmitToDone ==
    workerQueue # <<>> => isBusy

\* C12: no call of calc is rejected or dropped and none is processed twice or
\* out of order: the calls not yet processed are all queued, oldest first,
\* and the submission processed last is the newest call that is not queued.
EveryCallProcessedOnceInOrder ==
    /\ calls = processed + Len(workerQueue)
    /\ \A i \in 1..Len(workerQueue) : workerQueue[i].buf = processed + i
    /\ processed > 0 => last.buf = processed

\* C12 witness: the second call was made and processed while the schedule of
\* the first was in flight, having emitted a spectrum but no completion.
EveryCallProcessedOnceInOrderReached ==
    /\ processed = 2
    /\ last.buf = 2
    /\ Spectra(emitted) # <<>>
    /\ \E i \in 1..Len(handled \o callerQueue) :
           /\ IsSpectrum((handled \o callerQueue)[i])
           /\ (handled \o callerQueue)[i].buf = 1
    /\ Completions(handled \o callerQueue) = <<>>

\* C13: a call of calc only appends the submission to the worker's queue and
\* leaves array, numberOfChunks, interval, pass and the timer as they are;
\* array, numberOfChunks, interval and the timer change only in a step that
\* runs processBuffer.
CalcOnlyHandsOver ==
    [][/\ calls' # calls =>
              /\ UNCHANGED workerVars
              /\ Len(workerQueue') = Len(workerQueue) + 1
              /\ SubSeq(workerQueue', 1, Len(workerQueue)) = workerQueue
       /\ <<array, numberOfChunks, interval, timerActive, timerInterval>>'
              # <<array, numberOfChunks, interval, timerActive, timerInterval>>
              => processed' = processed + 1]_vars

\* C13 witness: calc has returned with a buffer of another size than array,
\* and the worker has not yet processed it.
CalcOnlyHandsOverReached ==
    /\ workerQueue # <<>>
    /\ array.len # workerQueue[1].len
    /\ array.buf # workerQueue[1].buf
    /\ processed > 0

\* The spectra of buffer b in a sequence of signals.
SpectraOfBuffer(s, b) ==
    SelectSeq(s, LAMBDA e : IsSpectrum(e) /\ e.buf = b)

\* C14: the subscribers receive the spectra of every schedule by increasing
\* frame index from frame 0, none lost and none twice; the spectra the
\* current schedule has emitted are all delivered or queued for delivery;
\* and no spectrum of a schedule is handled after that schedule's allDone.
DeliveryPreservesOrder ==
    /\ \A b \in 1..calls :
           \A i \in 1..Len(SpectraOfBuffer(delivered, b)) :
               SpectraOfBuffer(delivered, b)[i].offset = (i - 1) * SPECSIZE
    /\ processed > 0 =>
           SpectraOfBuffer(delivered, last.buf)
               \o SpectraOfBuffer(callerQueue, last.buf) = Spectra(emitted)
    /\ \A i, j \in 1..Len(handled) :
           (i < j /\ IsAllDone(handled[i]) /\ IsSpectrum(handled[j])) =>
               \A k \in 1..(i - 1) :
                   IsSpectrum(handled[k]) => handled[k].buf # handled[j].buf

\* C14 witness: both spectra of a two-chunk schedule have been delivered, and
\* then its allDone has been handled.
DeliveryPreservesOrderReached ==
    /\ processed > 0
    /\ Len(SpectraOfBuffer(delivered, last.buf)) = 2
    /\ callerQueue = <<>>
    /\ handled # <<>>
    /\ IsAllDone(handled[Len(handled)])
    /\ IsSpectrum(handled[Len(handled) - 1])

\* C19: no frame run() extracts reaches into the trailing partial frame, at
\* index floor(len/SPECSIZE)*SPECSIZE or beyond, and no read is out of
\* range; a buffer of 3*SPECSIZE-1 samples lasting 300 ms gives
\* numberOfChunks = 2, interval = 150 and exactly 2 spectra.
PartialFrameNeverProcessed ==
    (processed > 0 /\ array.len >= SPECSIZE) =>
        /\ ~outOfRange
        /\ \A i \in 1..Len(Spectra(emitted)) :
               Spectra(emitted)[i].offset + SPECSIZE
                   <= (last.len \div SPECSIZE) * SPECSIZE
        /\ (last.len = 3 * SPECSIZE - 1 /\ last.duration = 300) =>
               /\ numberOfChunks = 2
               /\ interval = 150
               /\ Len(Spectra(emitted)) = Min(runs, 2)

\* C19 witness: the buffer of 3*SPECSIZE-1 samples and 300 ms has had its two
\* spectra emitted and a further tick has come.
PartialFrameNeverProcessedReached ==
    /\ processed > 0
    /\ last.len = 3 * SPECSIZE - 1
    /\ last.duration = 300
    /\ interval = 150
    /\ runs = 3
    /\ Len(Spectra(emitted)) = 2

\* C15: a schedule of a buffer of at least one window that starts with ticks
\* enough left for its frames and its completion (the tick budget bounds the
\* model, not the program) leads to pass = numberOfChunks with the allDone
\* emitted, unless a further submission is processed first.
ScheduleRunsToCompletion ==
    \A n \in 1..MaxCalls :
        (/\ processed = n
         /\ array.len >= SPECSIZE
         /\ runs = 0
         /\ ticks + numberOfChunks + 1 <= MaxTicks)
            ~> (\/ processed > n
                \/ pass = numberOfChunks /\ Completions(emitted) # <<>>)

\* C15 witness: a schedule of MaxChunks frames has run to its completion.
ScheduleRunsToCompletionReached ==
    /\ processed > 0
    /\ array.len >= SPECSIZE
    /\ numberOfChunks = MaxChunks
    /\ pass = numberOfChunks
    /\ runs = numberOfChunks + 1
    /\ Completions(emitted) # <<>>

\* C16: the buffer of a job is immutable: no tick changes array,
\* numberOfChunks or interval; array changes only in a step that runs
\* processBuffer; and when the caller overwrites its own vector for the next
\* audio buffer, array and the submissions already queued keep their samples.
BufferImmutableDuringJob ==
    [][/\ runs' = runs + 1 => UNCHANGED <<array, numberOfChunks, interval>>
       /\ array' # array => processed' = processed + 1
       /\ sample' # sample =>
              /\ array' = array
              /\ SubSeq(workerQueue', 1, Len(workerQueue)) = workerQueue]_vars

\* C16 witness: the caller has overwritten its vector with the second buffer
\* while the worker's job on the first one, which has emitted a spectrum,
\* still holds the first buffer.
BufferImmutableDuringJobReached ==
    /\ array.buf = 1
    /\ sample.buf = 2
    /\ workerQueue # <<>>
    /\ Spectra(emitted) # <<>>
    /\ pass < numberOfChunks

\* ------------------------------------------------------------ one frame
\* One frame through the arithmetic of run(), for every combination of
\* kinds its samples can hold and in both modes.  The frame is either raw
\* Float audio still to pass MediaService::processBuffer ("audio") or a
\* vector given to calc by any other caller ("direct").  The scheduling
\* members take no part in the arithmetic and stay as constructed.
ShapeInit ==
    /\ array = [buf |-> 0, len |-> 0, kinds |-> {}]
    /\ numberOfChunks = 0
    /\ interval = 0
    /\ pass = 0
    /\ timerActive = TRUE
    /\ timerInterval = CtorTimerInterval
    /\ fault = FALSE
    /\ workerQueue = <<>>
    /\ callerQueue = <<>>
    /\ isBusy = FALSE
    /\ delivered = <<>>
    /\ handled = <<>>
    /\ emitted = <<>>
    /\ runs = 0
    /\ ticks = 0
    /\ calls = 0
    /\ processed = 0
    /\ last = [buf |-> 0, len |-> 0, duration |-> 0, kinds |-> {}]
    /\ divByZero = FALSE
    /\ outOfRange = FALSE
    /\ sample = [buf |-> 0, len |-> 0, kinds |-> {}]
    /\ stage \in {"audio", "direct"}
    /\ frame \in SUBSET Floats \ {{}}
    /\ magnitudes = {}
    /\ complexFrame = {}
    /\ spectrum = {}
    /\ compressed \in BOOLEAN
    /\ AsideIdle

\* MediaService::processBuffer, Float format: normalise each sample and
\* replace a NaN by 0.
probe ==
    /\ stage = "audio"
    /\ frame' \in Outcomes([x \in frame |-> Sanitized(x)])
    /\ stage' = "probed"
    /\ UNCHANGED <<magnitudes, complexFrame, spectrum, compressed>>
    /\ UNCHANGED <<schedulerVars, asideVars>>

\* BufferProcessor::run for one frame: window, fft, the amplitude loop,
\* then the compressed or the linear spectrum.
shape ==
    /\ stage \in {"probed", "direct"}
    /\ magnitudes' \in SUBSET FftMagnitudes(frame) \ {{}}
    /\ complexFrame' \in Outcomes([m \in magnitudes' |-> AmplitudeSet(m)])
    /\ spectrum' \in SUBSET SpectrumValues(complexFrame', compressed) \ {{}}
    /\ stage' = "shaped"
    /\ UNCHANGED <<frame, compressed>>
    /\ UNCHANGED <<schedulerVars, asideVars>>

ShapeNext == probe \/ shape

ShapeSpec == ShapeInit /\ [][ShapeNext]_vars

\* C17: every element of an emitted spectrum lies in [0, 1], in the
\* compressed and in the linear mode, whatever the samples were (zeros,
\* out-of-range values, NaN, infinities).
SpectrumWithinUnitInterval ==
    stage = "shaped" => spectrum \subseteq {"Zero", "Frac", "One"}

\* A frame holding out-of-range, infinite and NaN samples has been shaped in
\* the linear mode.
SpectrumWithinUnitIntervalReached ==
    /\ stage = "shaped"
    /\ ~compressed
    /\ {"NaN", "Big", "NInf", "Zero"} \subseteq frame
    /\ spectrum # {}

SilentWindowScenario ==
    (/\ processed > 0
     /\ last.len = SPECSIZE /\ last.duration = 1000 /\ last.kinds = Silence)
        => /\ numberOfChunks = 1
           /\ interval = 1000
           /\ timerInterval = 1000
           /\ Len(emitted) = runs
           /\ \A i \in 1..Len(emitted) :
                  emitted[i] = IF i = 1
                               THEN CalculatedSpectrum(last.buf, 0, {"Zero"})
                               ELSE AllDone

\* The window of silence has been submitted after another buffer, and its
\* spectrum and a completion have been emitted.
SilentWindowScenarioReached ==
    /\ processed = 2
    /\ last.len = SPECSIZE /\ last.duration = 1000 /\ last.kinds = Silence
    /\ Len(emitted) = 2
    /\ IsAllDone(emitted[2])

\* C25: whenever run() is about to extract a frame (the timer runs, pass
\* differs from numberOfChunks and array holds at least one window), the
\* frame lies inside array: 0 <= pass and (pass+1)*SPECSIZE <= len(array);
\* no run() has read outside array.  Before the first submission array is
\* empty, so no frame is extracted whatever pass and numberOfChunks hold.
FrameExtractionInBounds ==
    /\ ~outOfRange
    /\ (~fault /\ timerActive /\ pass # numberOfChunks
            /\ array.len >= SPECSIZE)
           => /\ 0 <= pass
              /\ (pass + 1) * SPECSIZE <= array.len
              /\ processed > 0

\* A second buffer, shorter than the first, has had a frame extracted after
\* the first ran to its last frame.
FrameExtractionInBoundsReached ==
    /\ processed = 2
    /\ array.len = SPECSIZE
    /\ Spectra(emitted) # <<>>
    /\ ~outOfRange

\* C26: a processed submission of at least one window leaves pass = 0 and
\* numberOfChunks >= 1; from then on 0 <= pass <= numberOfChunks is kept by
\* every step; pass changes only by reset to 0 in processBuffer or by +1 on
\* a tick that emits a spectrum, and a tick that emits allDone leaves it.
PassWithinSchedule ==
    [][/\ (processed' = processed + 1 /\ ~fault' /\ last'.len >= SPECSIZE)
            => (pass' = 0 /\ numberOfChunks' >= 1)
       /\ (processed > 0 /\ ~fault' /\ 0 <= pass /\ pass <= numberOfChunks)
            => (0 <= pass' /\ pass' <= numberOfChunks')
       /\ pass' # pass
            => \/ processed' = processed + 1 /\ pass' = 0
               \/ /\ runs' = runs + 1
                  /\ pass' = pass + 1
                  /\ Len(Spectra(emitted')) = Len(Spectra(emitted)) + 1
       /\ (runs' = runs + 1
             /\ Len(Completions(emitted')) > Len(Completions(emitted)))
            => pass' = pass]_vars

\* The second schedule has run to pass = numberOfChunks and emitted allDone.
PassWithinScheduleReached ==
    /\ processed = 2
    /\ numberOfChunks >= 1
    /\ pass = numberOfChunks
    /\ Spectra(emitted) # <<>>
    /\ Completions(emitted) # <<>>

\* Every signal run() has emitted and FFTCalc has taken or has yet to take,
\* in the order of emission.
Signals == handled \o callerQueue

\* C28: nothing withdraws a spectrum on its way to the caller: calc and
\* processBuffer leave the queued signals alone, and setSpectrum hands on
\* the oldest one whatever buffer it came from, also when the caller has
\* since called calc with a newer buffer.
StaleSpectrumStillDelivered ==
    [][/\ (calls' = calls + 1 \/ processed' = processed + 1)
            => callerQueue' = callerQueue
       /\ (handled' # handled /\ IsSpectrum(Head(callerQueue)))
            => /\ delivered' = Append(delivered, Head(callerQueue))
               /\ handled' = Append(handled, Head(callerQueue))
               /\ callerQueue' = Tail(callerQueue)]_vars

\* The second buffer has been processed and a spectrum of the first is
\* still on its way to the caller.
StaleSpectrumStillDeliveredReached ==
    /\ processed = 2
    /\ callerQueue # <<>>
    /\ IsSpectrum(Head(callerQueue))
    /\ Head(callerQueue).buf = 1
    /\ last.buf = 2

CAdd(a, b) == <<a[1] + b[1], a[2] + b[2]>>

CSub(a, b) == <<a[1] - b[1], a[2] - b[2]>>

CMul(a, b) == <<a[1] * b[1] - a[2] * b[2], a[1] * b[2] + a[2] * b[1]>>

\* std::conj
Conj(a) == <<a[1], -a[2]>>

\* x.apply(std::conj)
ConjAll(a) == [i \in 1..Len(a) |-> Conj(a[i])]

\* std::polar(1.0, 2 * PI * k / N), the factor of the inverse transform.
TwiddleCounterClockwise(k, N) ==
    CASE (4 * k) \div N = 0 -> <<1, 0>>
      [] (4 * k) \div N = 1 -> <<0, 1>>
      [] (4 * k) \div N = 2 -> <<-1, 0>>
      [] (4 * k) \div N = 3 -> <<0, -1>>

\* std::polar(1.0, -2 * PI * k / N) where the angle is a multiple of a
\* quarter turn: 1, -i, -1, i.
Twiddle(k, N) ==
    CASE (4 * k) \div N = 0 -> <<1, 0>>
      [] (4 * k) \div N = 1 -> <<0, -1>>
      [] (4 * k) \div N = 2 -> <<-1, 0>>
      [] (4 * k) \div N = 3 -> <<0, 1>>

\* x[std::slice(start, N/2, 2)]
Slice(a, start) == [j \in 1..(Len(a) \div 2) |-> a[start + 2 * (j - 1) + 1]]

\* fft(x): nothing for N <= 1; otherwise transform the even and the odd
\* half and combine them.
RECURSIVE Fft(_)
Fft(a) ==
    IF Len(a) <= 1
    THEN a
    ELSE LET N == Len(a)
             even == Fft(Slice(a, 0))
             odd == Fft(Slice(a, 1))
         IN  [i \in 1..N |->
                 IF i <= N \div 2
                 THEN CAdd(even[i], CMul(Twiddle(i - 1, N), odd[i]))
                 ELSE CSub(even[i - N \div 2],
                           CMul(Twiddle(i - 1 - N \div 2, N),
                                odd[i - N \div 2]))]

\* The calls of fft made, directly or not, from within fft of an array of
\* n elements, as it would be if only the empty array were left alone.
RECURSIVE FftCallsFromOne(_)
FftCallsFromOne(n) ==
    IF n < 1 THEN 0 ELSE 2 + 2 * FftCallsFromOne(n \div 2)

\* The calls of fft made, directly or not, from within fft of an array of
\* n elements: none for N <= 1, else fft(even), fft(odd) and theirs.
RECURSIVE FftCalls(_)
FftCalls(n) == IF n <= 1 THEN 0 ELSE 2 + 2 * FftCalls(n \div 2)

\* x /= x.size(), on parts that are whole multiples of the size.
DividedBySize(a) ==
    [i \in 1..Len(a) |-> <<a[i][1] \div Len(a), a[i][2] \div Len(a)>>]

\* ifft without its last line.
IfftUnscaled(a) == ConjAll(Fft(ConjAll(a)))

\* ifft(x): conjugate, fft, conjugate, divide by the size.
Ifft(a) == DividedBySize(ConjAll(Fft(ConjAll(a))))

\* The scheduler and the frame arithmetic as constructed and left alone.
Unused ==
    /\ array = [buf |-> 0, len |-> 0, kinds |-> {}]
    /\ numberOfChunks = 0
    /\ interval = 0
    /\ pass = 0
    /\ timerActive = TRUE
    /\ timerInterval = CtorTimerInterval
    /\ fault = FALSE
    /\ workerQueue = <<>>
    /\ callerQueue = <<>>
    /\ isBusy = FALSE
    /\ delivered = <<>>
    /\ handled = <<>>
    /\ emitted = <<>>
    /\ runs = 0
    /\ ticks = 0
    /\ calls = 0
    /\ processed = 0
    /\ last = [buf |-> 0, len |-> 0, duration |-> 0, kinds |-> {}]
    /\ divByZero = FALSE
    /\ outOfRange = FALSE
    /\ sample = [buf |-> 0, len |-> 0, kinds |-> {}]
    /\ stage = "idle"
    /\ frame = {}
    /\ magnitudes = {}
    /\ complexFrame = {}
    /\ spectrum = {}
    /\ compressed = TRUE

\* Everything but fft, the table and MediaService's handler left alone, for
\* the specifications that take one of these on its own.
Parked ==
    /\ Unused
    /\ ClockIdle
    /\ LoopIdle
    /\ MediaIdle
    /\ FocusIdle
    /\ BucketIdle

\* The lengths for which the arithmetic is exact, and the empty array.
Lengths == {0, 1, 2, 4}

\* The real and imaginary parts the arrays are drawn from.
Parts == {-1, 0, 2}

Arrays == UNION {[1..n -> Parts \X Parts] : n \in Lengths}

FftInit ==
    /\ Parked
    /\ TableIdle
    /\ DecimateIdle
    /\ step = "given"
    /\ given \in Arrays
    /\ cx = given
    /\ recursions = 0

\* fft(x)
fft ==
    /\ step = "given"
    /\ cx' = Fft(cx)
    /\ recursions' = FftCalls(Len(cx))
    /\ step' = "transformed"
    /\ UNCHANGED <<given, schedulerVars, shapeVars, logscale, decimateVars,
                   clockVars, loopVars,
                   mediaVars,
                   focusVars,
                   bucketVars>>

\* ifft(x)
ifft ==
    /\ step = "transformed"
    /\ cx' = Ifft(cx)
    /\ recursions' = FftCalls(Len(cx))
    /\ step' = "restored"
    /\ UNCHANGED <<given, schedulerVars, shapeVars, logscale, decimateVars,
                   clockVars, loopVars,
                   mediaVars,
                   focusVars,
                   bucketVars>>

FftNext == fft \/ ifft

FftSpec == FftInit /\ [][FftNext]_vars

\* C21: ifft(fft(x)) = x for every array of length 1, 2 or 4 (and the empty
\* one), in exact arithmetic; the division by the size in ifft is exact,
\* what it divides being the size times x.
RoundTrip ==
    step = "restored" =>
        /\ cx = given
        /\ \A i \in 1..Len(given) :
               IfftUnscaled(Fft(given))[i] =
                   <<Len(given) * given[i][1], Len(given) * given[i][2]>>

\* An array of four elements, not all equal, with real and imaginary parts,
\* has been through fft and ifft, and fft changed it.
RoundTripReached ==
    /\ step = "restored"
    /\ Len(given) = 4
    /\ given[1] = <<2, -1>>
    /\ given[2] = <<-1, 2>>
    /\ given[4] = <<0, 2>>
    /\ Fft(given) # given

\* C22: fft of an array of one element, or of none, leaves it as it is and
\* makes no call of fft.
SingletonUntouched ==
    (step = "transformed" /\ Len(given) <= 1) =>
        (cx = given /\ recursions = 0)

\* fft has been applied to an array of one element.
SingletonUntouchedReached ==
    /\ step = "transformed"
    /\ Len(given) = 1
    /\ given[1] = <<2, -1>>

\* ------------------------------------------------------------ logscale
\* The largest r with r * r <= n, found by bisection between lo and hi.
RECURSIVE Bisect(_, _, _)
Bisect(n, lo, hi) ==
    IF lo = hi
    THEN lo
    ELSE IF ((lo + hi + 1) \div 2) * ((lo + hi + 1) \div 2) <= n
         THEN Bisect(n, (lo + hi + 1) \div 2, hi)
         ELSE Bisect(n, lo, (lo + hi + 1) \div 2 - 1)

\* The square root of a fixed-point number between 1 and 2.
Root(v) == Bisect(v * Unit, Unit, 2 * Unit)

\* 2^(1/2), 2^(1/4), 2^(1/8), 2^(1/16), 2^(1/32)
Roots ==
    <<Root(2 * Unit),
      Root(Root(2 * Unit)),
      Root(Root(Root(2 * Unit))),
      Root(Root(Root(Root(2 * Unit)))),
      Root(Root(Root(Root(Root(2 * Unit)))))>>

\* 2^(j/32) for j in 0..31: the product of the roots the bits of j select.
RECURSIVE PowFraction(_, _)
PowFraction(j, bit) ==
    IF bit > 5
    THEN Unit
    ELSE IF (j \div (2 ^ (5 - bit))) % 2 = 1
         THEN (PowFraction(j, bit + 1) * Roots[bit]) \div Unit
         ELSE PowFraction(j, bit + 1)

\* powf (SPECSIZE/2, (float) 2*i / SPECSIZE): SPECSIZE/2 being 2^8, this
\* is 2^(i/32), a power of two times 2^(j/32) with j < 32.
Powf(i) == (2 ^ (i \div 32)) * PowFraction(i % 32, 1)

\* The entry with the exponent negated.
LogscaleEntryInverted(i) == (Unit * Unit) \div Powf(i) - Unit \div 2

\* logscale[i] = powf (SPECSIZE/2, (float) 2*i / SPECSIZE) - 0.5f
LogscaleEntry(i) == Powf(i) - Unit \div 2

TableInit ==
    /\ Parked
    /\ FftIdle
    /\ DecimateIdle
    /\ logscale = <<>>

\* One turn of the constructor's loop for (int i = 0; i <= SPECSIZE/2; i++).
fillLogscale ==
    /\ Len(logscale) <= SPECSIZE \div 2
    /\ logscale' = Append(logscale, LogscaleEntry(Len(logscale)))
    /\ UNCHANGED <<schedulerVars, shapeVars, fftVars, decimateVars, clockVars,
                   loopVars,
                   mediaVars,
                   focusVars,
                   bucketVars>>

TableNext == fillLogscale

TableSpec == TableInit /\ [][TableNext]_vars

\* C23: the table never has more than SPECSIZE/2 + 1 entries, the loop
\* fills it to exactly that many, and each entry is at least the one before
\* it.  The entries in fact grow by more than two percent of the power
\* they are made from, far more than the rounding of powf or of this
\* arithmetic can take away.
LogscaleNondecreasing ==
    /\ Len(logscale) <= SPECSIZE \div 2 + 1
    /\ \A i \in 1..(Len(logscale) - 1) :
           /\ logscale[i] <= logscale[i + 1]
           /\ 50 * (logscale[i + 1] - logscale[i]) > logscale[i] + Unit \div 2

\* The loop has filled the table: SPECSIZE/2 + 1 entries, from 0.5 to
\* SPECSIZE/2 - 0.5.
LogscaleNondecreasingReached ==
    /\ Len(logscale) = SPECSIZE \div 2 + 1
    /\ ~ENABLED fillLogscale
    /\ logscale[1] = Unit \div 2
    /\ logscale[SPECSIZE \div 2 + 1] = (SPECSIZE \div 2) * Unit - Unit \div 2

\* ------------------------------------------------------------ MediaService
\* The step of the loop with the divisor size in place of size - 1.
StrideBySize(n) == n \div size

\* i += spectrum.size()/(size - 1)
Stride(n) == n \div (size - 1)

\* The spectra FFTCalc can hand over: SPECSIZE/2 elements each, of some
\* frame of some buffer.
Deliverable ==
    {CalculatedSpectrum(b, FrameOffset(p), SpectrumOf[<<c, TRUE>>]) :
        b \in 1..MaxCalls, p \in 0..(MaxChunks - 1), c \in Contents}

\* spectrum.size() of a spectrum FFTCalc hands over (spectrum.resize in
\* the constructor of BufferProcessor).
SpectrumSize == SPECSIZE \div 2

\* The handler has been called with a spectrum; m_spectrum is empty or
\* holds what an earlier call left.
DecimateInit ==
    /\ Parked
    /\ FftIdle
    /\ TableIdle
    /\ lambdaAt = "called"
    /\ incoming \in Deliverable
    /\ m_spectrum \in {<<>>, [k \in 1..size |-> -1]}
    /\ srcIndex = 0
    /\ dstIndex = 0
    /\ overrun = FALSE

\* int size = 20; m_spectrum.resize(size); int j = 0; and the loop's i = 0.
\* New elements of m_spectrum are 0.0 and come from no source (-1).
resizeSpectrum ==
    /\ lambdaAt = "called"
    /\ m_spectrum' = [k \in 1..size |->
                          IF k <= Len(m_spectrum) THEN m_spectrum[k] ELSE -1]
    /\ srcIndex' = 0
    /\ dstIndex' = 0
    /\ lambdaAt' = "loop"
    /\ UNCHANGED <<incoming, overrun>>
    /\ UNCHANGED <<schedulerVars, shapeVars, fftVars, logscale, clockVars,
                   loopVars,
                   mediaVars,
                   focusVars,
                   bucketVars>>

\* One turn of the loop: m_spectrum[j] = spectrum[i]; ++j; then the step
\* of i.  Writing m_spectrum outside its bounds is undefined: the handler
\* dies there or goes on with the vector as it is.
copyElement ==
    /\ lambdaAt = "loop"
    /\ srcIndex < SpectrumSize
    /\ IF dstIndex < Len(m_spectrum)
       THEN /\ m_spectrum' = [m_spectrum EXCEPT ![dstIndex + 1] = srcIndex]
            /\ UNCHANGED <<overrun, lambdaAt>>
       ELSE /\ overrun' = TRUE
            /\ lambdaAt' \in {"loop", "dead"}
            /\ UNCHANGED m_spectrum
    /\ dstIndex' = dstIndex + 1
    /\ srcIndex' = srcIndex + Stride(SpectrumSize)
    /\ UNCHANGED incoming
    /\ UNCHANGED <<schedulerVars, shapeVars, fftVars, logscale, clockVars,
                   loopVars,
                   mediaVars,
                   focusVars,
                   bucketVars>>

\* The loop is left at i >= spectrum.size(): emit spectrumChanged().
emitSpectrumChanged ==
    /\ lambdaAt = "loop"
    /\ srcIndex >= SpectrumSize
    /\ lambdaAt' = "returned"
    /\ UNCHANGED <<incoming, m_spectrum, srcIndex, dstIndex, overrun>>
    /\ UNCHANGED <<schedulerVars, shapeVars, fftVars, logscale, clockVars,
                   loopVars,
                   mediaVars,
                   focusVars,
                   bucketVars>>

DecimateNext == resizeSpectrum \/ copyElement \/ emitSpectrumChanged

DecimateSpec == DecimateInit /\ [][DecimateNext]_vars

\* C24: the loop steps i by 256 \div 19 = 13; after j turns i = 13 j and
\* m_spectrum[0..j-1] hold spectrum[0], spectrum[13], ...; there are never
\* more than 20 turns and no write at an index >= 20; when the handler
\* returns there have been exactly 20, the last from spectrum[247].
DecimationFillsTwenty ==
    /\ ~overrun
    /\ lambdaAt # "dead"
    /\ lambdaAt \in {"loop", "returned"} =>
           /\ Len(m_spectrum) = size
           /\ dstIndex <= size
           /\ srcIndex = 13 * dstIndex
           /\ \A k \in 1..dstIndex : m_spectrum[k] = 13 * (k - 1)
    /\ lambdaAt = "returned" =>
           /\ dstIndex = 20
           /\ m_spectrum[20] = 247
           /\ \A k \in 1..20 : m_spectrum[k] \in 0..(SpectrumSize - 1)

\* The handler has returned after filling a vector that was empty.
DecimationFillsTwentyReached ==
    /\ lambdaAt = "returned"
    /\ dstIndex = 20
    /\ m_spectrum[1] = 0 /\ m_spectrum[2] = 13 /\ m_spectrum[20] = 247
    /\ incoming.offset = SPECSIZE

\* ------------------------------------------------------------ the timer
\* The worker's handlers against the clock: the timer of BufferProcessor
\* fires when its interval has run out and is started anew by processBuffer.

\* The step of the clock, in milliseconds.
Quantum == 250

\* timer->start(interval) as it would be if it only changed the interval
\* and kept the timeout that is pending.
TimerStartKeepsPending(left, msec) == left

\* timer->start(interval) on the running timer: the timer is stopped and
\* started again, so its next timeout is a whole msec away, whatever was
\* left of the previous interval.
TimerStart(left, msec) == msec

\* After the constructors: timer->start(100) has just been called.
TimerInit ==
    /\ Constructed
    /\ FftIdle
    /\ TableIdle
    /\ DecimateIdle
    /\ MediaIdle
    /\ LoopIdle
    /\ remaining = CtorTimerInterval
    /\ sinceProcessed = 0
    /\ sinceFirst = 0
    /\ leftAlone = FALSE
    /\ FocusIdle
    /\ BucketIdle

\* Time passes, at most until the timeout of the timer is due.
elapse ==
    /\ ~fault
    /\ timerActive
    /\ remaining > 0
    /\ LET d == Min(Quantum, remaining)
       IN  /\ remaining' = remaining - d
           /\ sinceProcessed' = IF processed > 0 THEN sinceProcessed + d
                                ELSE sinceProcessed
           /\ sinceFirst' = IF processed > 0 THEN sinceFirst + d
                            ELSE sinceFirst
           /\ leftAlone' = (leftAlone \/ (processed > 0 /\
                               sinceProcessed + d >= timerInterval))
    /\ UNCHANGED <<schedulerVars, shapeVars, fftVars, logscale,
                   decimateVars, loopVars,
                   mediaVars,
                   focusVars,
                   bucketVars>>

\* processBuffer at some moment: its timer->start(interval) restarts the
\* timer (a trap at the division leaves the process without one).
processBufferTimed ==
    /\ processBufferEffect
    /\ remaining' = IF fault' THEN remaining
                    ELSE TimerStart(remaining, timerInterval')
    /\ sinceProcessed' = 0
    /\ sinceFirst' = IF processed = 0 THEN 0 ELSE sinceFirst
    /\ UNCHANGED leftAlone
    /\ UNCHANGED <<sample, shapeVars, fftVars, logscale, decimateVars,
                   loopVars,
                   mediaVars,
                   focusVars,
                   bucketVars>>

\* run() when the timeout is due; the timer is periodic and goes on with
\* the same interval.
runTimed ==
    /\ remaining = 0
    /\ runEffect
    /\ remaining' = timerInterval
    /\ UNCHANGED <<sinceProcessed, sinceFirst, leftAlone>>
    /\ UNCHANGED <<sample, shapeVars, fftVars, logscale, decimateVars,
                   loopVars,
                   mediaVars,
                   focusVars,
                   bucketVars>>

TimerNext ==
    \/ calc
    \/ processBufferTimed
    \/ runTimed
    \/ elapse

TimerSpec == TimerInit /\ [][TimerNext]_vars

\* Every signal run() has emitted so far (no slot of FFTCalc takes one off
\* callerQueue in TimerSpec).
EverEmitted == callerQueue

\* C30: processBuffer restarts the timer from zero whatever was left of the
\* pending interval; so the n-th tick after a processed submission comes
\* exactly n new intervals after it, the first one a whole interval later,
\* and a spectrum has only ever been emitted if some schedule was left
\* alone for a whole interval of its own: submissions processed less than
\* an interval apart starve the subscriber of spectra.
RestartStarves ==
    /\ [][(processed' = processed + 1 /\ ~fault') =>
              /\ remaining' = timerInterval'
              /\ sinceProcessed' = 0
              /\ runs' = 0]_vars
    /\ []((processed > 0 /\ ~fault) =>
              /\ sinceProcessed + remaining = (runs + 1) * timerInterval
              /\ (runs > 0 => sinceProcessed >= timerInterval))
    /\ [](Spectra(EverEmitted) # <<>> => leftAlone)

\* C30 witness: two submissions of whole windows have been processed, the
\* second one while the first tick of the first was pending; more time than
\* the longest interval any submission can ask for has gone by since the
\* first was processed, and no spectrum has been emitted.
RestartStarvesReached ==
    /\ processed = 2
    /\ ~fault
    /\ ~leftAlone
    /\ array.len >= SPECSIZE
    /\ \A d \in Durations : sinceFirst > d
    /\ sinceFirst > sinceProcessed
    /\ remaining > 0
    /\ Spectra(EverEmitted) = <<>>

\* ------------------------------------------------------------ the event loop
\* The worker thread one statement group at a time.  processor lives in
\* processorThread (moveToThread) and timer is its child, so the queued
\* invocations of processBuffer and the timeouts of timer are both events
\* of that thread's event loop, which hands out the next event only when
\* the handler of the previous one has returned.

\* The timeout as it would be if run() were called from a thread of its own
\* whenever the interval has run out.
TimeoutFromOtherThread(where) == TRUE

\* The timeout is delivered by the worker's event loop.
TimeoutDeliverable(where) == where = "loop"

\* After the constructors; what they left counts as settled.
LoopInit ==
    /\ Constructed
    /\ FftIdle
    /\ TableIdle
    /\ DecimateIdle
    /\ MediaIdle
    /\ ClockIdle
    /\ at = "loop"
    /\ pending = [buf |-> 0, len |-> 0, duration |-> 0, kinds |-> {}]
    /\ settled = <<array, numberOfChunks, interval>>
    /\ FocusIdle
    /\ BucketIdle

\* The event loop takes the oldest queued invocation of processBuffer:
\* if(array.size() != _array.size()){ numberOfChunks = ...; array.resize }.
\* The resized array keeps what it held.
sizeArray ==
    /\ ~fault
    /\ at = "loop"
    /\ workerQueue # <<>>
    /\ pending' = Head(workerQueue)
    /\ workerQueue' = Tail(workerQueue)
    /\ IF array.len # Head(workerQueue).len
       THEN /\ numberOfChunks' = ChunkCount(Head(workerQueue).len)
            /\ array' = [array EXCEPT !.len = Head(workerQueue).len]
       ELSE UNCHANGED <<numberOfChunks, array>>
    /\ at' = "sized"
    /\ UNCHANGED <<interval, pass, timerActive, timerInterval, fault,
                   callerQueue, isBusy, delivered, handled, emitted, runs,
                   ticks, calls, processed, last, divByZero, outOfRange,
                   sample, settled>>
    /\ UNCHANGED <<shapeVars, fftVars, logscale, decimateVars, clockVars,
                   mediaVars,
                   focusVars,
                   bucketVars>>

\* interval = duration/numberOfChunks; if(interval < 1) interval = 1.
\* A division by zero traps or leaves some value.
setInterval ==
    /\ ~fault
    /\ at = "sized"
    /\ IF numberOfChunks = 0
       THEN /\ divByZero' = TRUE
            /\ \/ /\ fault' = TRUE
                  /\ UNCHANGED <<interval, at>>
               \/ /\ \E q \in Uninit : interval' = ClampInterval(q)
                  /\ at' = "clamped"
                  /\ UNCHANGED fault
       ELSE /\ interval' =
                   ClampInterval(CDiv(pending.duration, numberOfChunks))
            /\ at' = "clamped"
            /\ UNCHANGED <<divByZero, fault>>
    /\ UNCHANGED <<array, numberOfChunks, pass, timerActive, timerInterval,
                   workerQueue, callerQueue, isBusy, delivered, handled,
                   emitted, runs, ticks, calls, processed, last, outOfRange,
                   sample, pending, settled>>
    /\ UNCHANGED <<shapeVars, fftVars, logscale, decimateVars, clockVars,
                   mediaVars,
                   focusVars,
                   bucketVars>>

\* array = _array; pass = 0; timer->start(interval); and the return to the
\* event loop.
takeBuffer ==
    /\ ~fault
    /\ at = "clamped"
    /\ array' = Buffer(pending.buf, pending)
    /\ pass' = 0
    /\ timerActive' = TRUE
    /\ timerInterval' = interval
    /\ processed' = processed + 1
    /\ last' = pending
    /\ emitted' = <<>>
    /\ runs' = 0
    /\ settled' = <<array', numberOfChunks, interval>>
    /\ at' = "loop"
    /\ UNCHANGED <<numberOfChunks, interval, fault, workerQueue, callerQueue,
                   isBusy, delivered, handled, ticks, calls, divByZero,
                   outOfRange, sample, pending>>
    /\ UNCHANGED <<shapeVars, fftVars, logscale, decimateVars, clockVars,
                   mediaVars,
                   focusVars,
                   bucketVars>>

\* A timeout: run() from its first statement to its return.
runInLoop ==
    /\ TimeoutDeliverable(at)
    /\ runEffect
    /\ UNCHANGED <<sample, shapeVars, fftVars, logscale, decimateVars,
                   clockVars, loopVars,
                   mediaVars,
                   focusVars,
                   bucketVars>>

LoopNext ==
    \/ calc
    \/ sizeArray
    \/ setInterval
    \/ takeBuffer
    \/ runInLoop

LoopSpec == LoopInit /\ [][LoopNext]_vars

\* C27: a tick never falls between two statements of processBuffer: run()
\* starts only with the worker in its event loop, where array,
\* numberOfChunks and interval are as the last completed processBuffer (or
\* the constructor) left them; there array is the buffer of the last
\* processed submission, interval is what the timer runs at, pass counts
\* the spectra emitted since, and numberOfChunks is the chunk count of a
\* nonempty array.  calc changes neither array nor numberOfChunks,
\* interval, pass or complexFrame.
HandlersNeverInterleave ==
    /\ [][ticks' = ticks + 1 =>
              /\ at = "loop"
              /\ <<array, numberOfChunks, interval>> = settled
              /\ UNCHANGED <<array, numberOfChunks, interval>>]_vars
    /\ [][calls' = calls + 1 =>
              UNCHANGED <<array, numberOfChunks, interval, pass,
                          complexFrame, at>>]_vars
    /\ []((at = "loop" /\ ~fault) =>
              <<array, numberOfChunks, interval>> = settled)
    /\ []((at = "loop" /\ ~fault /\ processed > 0) =>
              /\ array = Buffer(last.buf, last)
              /\ interval = timerInterval
              /\ pass = Len(Spectra(emitted))
              /\ (array.len # 0 => numberOfChunks = ChunkCount(array.len)))

\* C27 witness: the worker stands between the statements of processBuffer
\* for the second submission, with array already resized and numberOfChunks
\* already changed but the buffer of the first submission still in array,
\* the timer running since the first, and a spectrum of the first emitted.
HandlersNeverInterleaveReached ==
    /\ at = "sized"
    /\ processed = 1
    /\ ~fault
    /\ timerActive
    /\ array.buf = last.buf
    /\ array.len # last.len
    /\ <<array, numberOfChunks, interval>> # settled
    /\ settled[1].len >= SPECSIZE
    /\ Spectra(emitted) # <<>>
    /\ ticks < MaxTicks

\* ------------------------------------------------------------ before the first buffer
\* C31: as long as no submission has been processed, the ticks of the timer
\* the constructor started find array empty and emit no spectrum, whatever
\* pass and numberOfChunks hold: nothing but completions is emitted, queued,
\* handled or delivered, pass stays as it was and array is never read.
NoSpectrumBeforeFirstBuffer ==
    processed = 0 =>
        /\ array.len = 0
        /\ Spectra(emitted) = <<>>
        /\ Spectra(Signals) = <<>>
        /\ delivered = <<>>
        /\ Len(emitted) \in {0, ticks}
        /\ ~outOfRange
        /\ ~fault

\* C31 witness: the timer has ticked as often as it can with no submission
\* processed and pass and numberOfChunks unequal, so that every tick went
\* on to the guard on the size of array.
NoSpectrumBeforeFirstBufferReached ==
    /\ processed = 0
    /\ ticks = MaxTicks
    /\ timerInterval = CtorTimerInterval
    /\ pass # numberOfChunks
    /\ emitted = <<>>

\* ------------------------------------------------------------ the audio probe
\* MediaService::processBuffer, the only caller of FFTCalc::calc.

\* The audio buffers the probe hands over: a frame count, the duration the
\* format works out for it (never negative) and the samples.
Probed == {call \in Submissions : call.duration >= 0}

\* buffer.format().channelCount()
ChannelCounts == {1, 2}

\* The guards of processBuffer as they would be without the one on
\* the frame count.
SubmittableAnyLength(frameCount, channelCount) == ~(channelCount # 2)

\* Neither if(buffer.frameCount() < 512) return nor
\* if(buffer.format().channelCount() != 2) return is taken.
Submittable(frameCount, channelCount) ==
    ~(frameCount < 512) /\ ~(channelCount # 2)

MediaInit ==
    /\ Constructed
    /\ FftIdle
    /\ TableIdle
    /\ DecimateIdle
    /\ ClockIdle
    /\ LoopIdle
    /\ dropped = {}
    /\ FocusIdle
    /\ BucketIdle

\* MediaService::processBuffer for one probed buffer: the two early returns,
\* then sample.resize, the conversion of the samples and
\* calculator->calc(sample, duration), which queues the invocation.
audioBufferProbed ==
    /\ ~fault
    /\ \E call \in Probed, channelCount \in ChannelCounts :
           IF Submittable(call.len, channelCount)
           THEN /\ calls < MaxCalls
                /\ sample' = Buffer(calls + 1, call)
                /\ workerQueue' = Append(workerQueue,
                                          Invocation(calls + 1, call))
                /\ calls' = calls + 1
                /\ UNCHANGED dropped
           ELSE /\ dropped' = dropped \cup
                       {IF call.len < 512 THEN "frameCount"
                        ELSE "channelCount"}
                /\ UNCHANGED <<sample, workerQueue, calls>>
    /\ UNCHANGED <<workerVars, callerQueue, isBusy, delivered, handled,
                   emitted, runs, ticks, processed, last, divByZero,
                   outOfRange>>
    /\ UNCHANGED <<shapeVars, fftVars, logscale, decimateVars, clockVars,
                   loopVars,
                   focusVars,
                   bucketVars>>

MediaNext ==
    \/ audioBufferProbed
    \/ processBuffer
    \/ run
    \/ setSpectrum
    \/ freeCalc

MediaSpec == MediaInit /\ [][MediaNext]_vars

\* C32: what MediaService hands to calc has at least SPECSIZE samples, so
\* every queued and every processed invocation has, numberOfChunks is at
\* least 1 once one is processed, and no division by zero is executed.
MediaSubmitsWholeWindows ==
    /\ sample.buf > 0 => sample.len >= SPECSIZE
    /\ \A i \in 1..Len(workerQueue) : workerQueue[i].len >= SPECSIZE
    /\ processed > 0 =>
           /\ last.len >= SPECSIZE
           /\ array.len >= SPECSIZE
           /\ numberOfChunks >= 1
           /\ numberOfChunks = ChunkCount(last.len)
    /\ ~divByZero
    /\ ~fault

\* C32 witness: buffers have been turned away for their frame count and for
\* their channel count, and two submissions have been processed, the last
\* one of the longest buffer, of which a spectrum has been emitted.
MediaSubmitsWholeWindowsReached ==
    /\ dropped = {"frameCount", "channelCount"}
    /\ processed = 2
    /\ numberOfChunks = MaxChunks
    /\ last.buf = 2
    /\ Spectra(emitted) # <<>>

\* ------------------------------------------------------------ the transform
\* exp(-2 pi i m / N) for N = 2 or 4, as a power of -i.
RECURSIVE PowerOfMinusI(_)
PowerOfMinusI(q) ==
    IF q = 0 THEN <<1, 0>> ELSE CMul(<<0, -1>>, PowerOfMinusI(q - 1))

Exp(m, N) == PowerOfMinusI((m * (4 \div N)) % 4)

\* The sum of x[n] exp(-2 pi i k n / N) over the first count elements of a.
RECURSIVE DftSum(_, _, _)
DftSum(a, k, count) ==
    IF count = 0
    THEN <<0, 0>>
    ELSE CAdd(DftSum(a, k, count - 1),
              CMul(a[count], Exp(k * (count - 1), Len(a))))

\* The discrete Fourier transform of a, by its definition.
Dft(a) == [i \in 1..Len(a) |-> DftSum(a, i - 1, Len(a))]

\* C33: for an array of 2 or 4 elements fft leaves the discrete Fourier
\* transform of what it was given, and that transform is the butterfly of
\* the transforms of the even-indexed and the odd-indexed half:
\* X[k] = E[k] + t O[k] and X[k + N/2] = E[k] - t O[k], t = exp(-2 pi i k/N).
FftIsDft ==
    (step = "transformed" /\ Len(given) \in {2, 4}) =>
        /\ cx = Dft(given)
        /\ \A k \in 0..(Len(given) \div 2 - 1) :
               LET E == IF Len(given) = 2 THEN Slice(given, 0)
                        ELSE Dft(Slice(given, 0))
                   O == IF Len(given) = 2 THEN Slice(given, 1)
                        ELSE Dft(Slice(given, 1))
                   t == CMul(Exp(k, Len(given)), O[k + 1])
               IN  /\ cx[k + 1] = CAdd(E[k + 1], t)
                   /\ cx[k + 1 + Len(given) \div 2] = CSub(E[k + 1], t)

\* C33 witness: fft has transformed an array of four elements with real and
\* imaginary parts whose transform has a nonzero second and fourth element
\* that differ, so that the direction of the twiddle factor shows.
FftIsDftReached ==
    /\ step = "transformed"
    /\ Len(given) = 4
    /\ given[2] = <<2, -1>>
    /\ given[4] = <<-1, 0>>
    /\ cx[2] # cx[4]
    /\ cx # given

\* ------------------------------------------------------------ focus
\* One DelegateLoader and the AbstractDelegate it creates.  The server asks
\* for the focus through DelegateLoader::setFocus; the user takes it with
\* the mouse.

\* The most events the model lets triggerGuiEvent send before a further
\* mouse press.
MaxMessages == 3

\* Qt::FocusReason values a focusInEvent can carry here.
Reasons == {"ServerEventFocusReason", "MouseFocusReason"}

\* Where the delegate can sit: without a parentItem, with one that has no
\* QQmlContext, or with the context property index.
Placements ==
    [parent : {FALSE}, context : {FALSE}, index : {-1}]
        \cup [parent : {TRUE}, context : {FALSE}, index : {-1}]
        \cup [parent : {TRUE}, context : {TRUE}, index : {-1, 0, 1}]

\* focusInEvent's first test as it would be if every reason were taken for
\* a focus of the user's.
FromServerNever(reason) == FALSE

\* event->reason() == (Qt::FocusReason)AbstractSkillView::ServerEventFocusReason
FromServer(reason) == reason = "ServerEventFocusReason"

\* AbstractDelegate::focusInEvent: the events it triggers.
FocusInEvent(reason) ==
    IF FromServer(reason) THEN <<>>
    ELSE IF ~placement.parent THEN <<>>
    ELSE IF ~placement.context THEN <<>>
    ELSE IF placement.index >= 0
    THEN <<[name |-> "page_gained_focus", number |-> placement.index,
            reason |-> reason]>>
    ELSE <<>>

\* What forceActiveFocus(reason) makes the delegate send: an item that gains
\* the active focus is sent a focusInEvent with that reason, one that has it
\* already is sent none.
Forced(reason) == IF activeFocus THEN <<>> ELSE FocusInEvent(reason)

\* system.gui.user.interaction, as triggerGuiEvent sends it.
UserInteraction == [name |-> "system.gui.user.interaction", number |-> -1,
                    reason |-> "none"]

FocusInit ==
    /\ Unused
    /\ FftIdle
    /\ TableIdle
    /\ DecimateIdle
    /\ ClockIdle
    /\ LoopIdle
    /\ MediaIdle
    /\ m_focus = FALSE
    /\ m_delegate = FALSE
    /\ activeFocus = FALSE
    /\ placement \in Placements
    /\ lastFocusIn = "none"
    /\ sent = <<>>
    /\ BucketIdle

\* DelegateLoader::setFocus(focus)
setFocus ==
    /\ \E focus \in BOOLEAN :
           /\ m_focus' = focus
           /\ IF m_delegate /\ focus
              THEN /\ sent' = sent \o Forced("ServerEventFocusReason")
                   /\ lastFocusIn' = IF activeFocus THEN lastFocusIn
                                     ELSE "ServerEventFocusReason"
                   /\ activeFocus' = TRUE
              ELSE IF m_delegate
              THEN /\ activeFocus' = FALSE
                   /\ UNCHANGED <<sent, lastFocusIn>>
              ELSE UNCHANGED <<sent, lastFocusIn, activeFocus>>
    /\ UNCHANGED <<m_delegate, placement>>
    /\ UNCHANGED <<schedulerVars, shapeVars, fftVars, logscale, decimateVars,
                   clockVars, loopVars, mediaVars,
                   bucketVars>>

\* DelegateLoader::createObject: the component fails, yields something that
\* is no AbstractDelegate, or yields the delegate, which is given the focus
\* if m_focus is set.
createObject ==
    /\ ~m_delegate
    /\ \E created \in BOOLEAN :
           /\ m_delegate' = created
           /\ IF created /\ m_focus
              THEN /\ sent' = sent \o Forced("ServerEventFocusReason")
                   /\ lastFocusIn' = "ServerEventFocusReason"
                   /\ activeFocus' = TRUE
              ELSE UNCHANGED <<sent, lastFocusIn, activeFocus>>
    /\ UNCHANGED <<m_focus, placement>>
    /\ UNCHANGED <<schedulerVars, shapeVars, fftVars, logscale, decimateVars,
                   clockVars, loopVars, mediaVars,
                   bucketVars>>

\* AbstractDelegate::mousePressEvent (and childMouseEventFilter on a press):
\* forceActiveFocus(Qt::MouseFocusReason), then the interaction event.
mousePressEvent ==
    /\ m_delegate
    /\ Len(sent) < MaxMessages
    /\ sent' = Append(sent \o Forced("MouseFocusReason"), UserInteraction)
    /\ lastFocusIn' = IF activeFocus THEN lastFocusIn ELSE "MouseFocusReason"
    /\ activeFocus' = TRUE
    /\ UNCHANGED <<m_focus, m_delegate, placement>>
    /\ UNCHANGED <<schedulerVars, shapeVars, fftVars, logscale, decimateVars,
                   clockVars, loopVars, mediaVars,
                   bucketVars>>

\* The active focus goes to some other item.
focusOut ==
    /\ m_delegate
    /\ activeFocus
    /\ activeFocus' = FALSE
    /\ UNCHANGED <<m_focus, m_delegate, placement, lastFocusIn, sent>>
    /\ UNCHANGED <<schedulerVars, shapeVars, fftVars, logscale, decimateVars,
                   clockVars, loopVars, mediaVars,
                   bucketVars>>

FocusNext ==
    \/ setFocus
    \/ createObject
    \/ mousePressEvent
    \/ focusOut

FocusSpec == FocusInit /\ [][FocusNext]_vars

PageGainedFocus(s) ==
    SelectSeq(s, LAMBDA e : e.name = "page_gained_focus")

\* C34: a focus the server asks for is not reported back: no
\* page_gained_focus is ever sent for a focusInEvent whose reason is
\* ServerEventFocusReason, and a step in which the delegate is given the
\* focus with that reason, by setFocus(true) or by createObject, sends
\* nothing at all.
ServerFocusNotEchoed ==
    /\ [](\A i \in 1..Len(sent) :
              sent[i].name = "page_gained_focus" =>
                  sent[i].reason = "MouseFocusReason")
    /\ [][(lastFocusIn' = "ServerEventFocusReason" /\
              (~activeFocus /\ activeFocus')) => sent' = sent]_vars
    /\ [][(m_focus' # m_focus \/ m_delegate' # m_delegate) =>
              sent' = sent]_vars

\* C34 witness: the delegate sits on a page with an index, has been given
\* the focus by the server after the user had taken it and lost it, and
\* the only page_gained_focus sent is the one of the user's.
ServerFocusNotEchoedReached ==
    /\ m_delegate
    /\ m_focus
    /\ activeFocus
    /\ placement.index >= 0
    /\ lastFocusIn = "ServerEventFocusReason"
    /\ Len(PageGainedFocus(sent)) = 1
    /\ Len(sent) = 2

\* ------------------------------------------------------------ the buckets
\* The loop of run() that adds the amplitudes up into SPECSIZE/2 buckets
\* along logscale, one bucket at a time; numbers with a fraction are whole
\* numbers of 1/Unit.

\* The rounding towards zero in the place of ceilf.
CeilfTruncating(v) == v \div Unit

\* ceilf
Ceilf(v) == (v + Unit - 1) \div Unit

\* floorf
Floorf(v) == v \div Unit

\* The table as the constructor filled it.
FilledLogscale == [i \in 1..(SPECSIZE \div 2 + 1) |-> LogscaleEntry(i - 1)]

\* The bins complexFrame[...] that bucket i reads and the weight each is
\* multiplied by, with lo = logscale[i] and hi = logscale[i+1].
BinsRead(lo, hi) ==
    LET a == Ceilf(lo)
        b == Floorf(hi)
    IN  IF b < a
        THEN {[bin |-> b, weight |-> hi - lo]}
        ELSE (IF a > 0
              THEN {[bin |-> a - 1, weight |-> a * Unit - lo]}
              ELSE {})
             \cup {[bin |-> k, weight |-> Unit] : k \in a..(b - 1)}
             \cup (IF b < SPECSIZE \div 2
                   THEN {[bin |-> b, weight |-> hi - b * Unit]}
                   ELSE {})

BucketInit ==
    /\ Unused
    /\ FftIdle
    /\ DecimateIdle
    /\ ClockIdle
    /\ LoopIdle
    /\ MediaIdle
    /\ FocusIdle
    /\ logscale = FilledLogscale
    /\ bucket = 0
    /\ reads = {}

\* One turn of for (int i = 0; i < SPECSIZE/2; i++) up to the sum.
compressBucket ==
    /\ bucket < SPECSIZE \div 2
    /\ reads' = BinsRead(logscale[bucket + 1], logscale[bucket + 2])
    /\ bucket' = bucket + 1
    /\ UNCHANGED <<schedulerVars, shapeVars, fftVars, logscale, decimateVars,
                   clockVars, loopVars, mediaVars, focusVars>>

BucketNext == compressBucket

BucketSpec == BucketInit /\ [][BucketNext]_vars

\* C35: every bucket reads at least one bin, every bin it reads is one of
\* the SPECSIZE/2 amplitudes, and no weight is negative; the bins of a
\* bucket are consecutive and none lies above the bucket's own number.
BucketReadsInBounds ==
    /\ bucket \in 0..(SPECSIZE \div 2)
    /\ bucket > 0 =>
           /\ reads # {}
           /\ \A r \in reads :
                  /\ 0 <= r.bin
                  /\ r.bin < SPECSIZE \div 2
                  /\ r.weight >= 0
                  /\ r.weight <= Unit
                  /\ r.bin <= bucket - 1
           /\ \A r, q \in reads :
                  r.bin < q.bin => \E m \in reads : m.bin = r.bin + 1

\* C35 witness: the last bucket has been worked out; it reads a part of the
\* bin below ceil(logscale[i]), whole bins, and a part of bin
\* floor(logscale[i+1]) = SPECSIZE/2 - 1.
BucketReadsInBoundsReached ==
    /\ bucket = SPECSIZE \div 2
    /\ \E r \in reads : r.bin = SPECSIZE \div 2 - 1 /\ r.weight < Unit
    /\ \E r \in reads : r.weight = Unit
    /\ Cardinality(reads) >= 3

====
